---- MODULE Spec2Model ----
(***************************************************************************)
(* Model of the dependency sorter of go-ast-analyzer (src/main.go).        *)
(*                                                                         *)
(* A Go string is modelled as the sequence of its bytes, so that           *)
(* sort.Strings compares names exactly as Go does (byte-wise,              *)
(* lexicographic).  A declaration record is [Name, Deps, Level]: Name is   *)
(* what the TypeNameProvider returns for it, Deps is the set of names the  *)
(* DependencyExtractor returns for it (every extractor of main.go returns  *)
(* the keys of a map, hence a set in unspecified order), and Level is the  *)
(* record's Level field.                                                   *)
(*                                                                         *)
(* Go iterates a map in an unspecified order.  Every "range" over a map    *)
(* in ResolveDependencies is modelled by a sequence (an iteration order)   *)
(* that the actions choose nondeterministically.                           *)
(*                                                                         *)
(* The other functions of main.go are pure: a call of one of them is the   *)
(* pair of variables call (the function and its argument) and ret (what it *)
(* returned), see CallSpec.  The analysis engine of one declaration kind,  *)
(* the interfaces, is the variable engine, see EngineSpec.                 *)
(***************************************************************************)
EXTENDS Integers, Sequences, FiniteSets, TLC

VARIABLES items, pc, allItems, graph, inDegree, queue, processed, result,
          call, ret, engine

vars == <<items, pc, allItems, graph, inDegree, queue, processed, result,
          call, ret, engine>>

----------------------------------------------------------------------------
(* Bounds of the model.                                                    *)

\* Longest input sequence handed to ResolveDependencies.
MaxItems == 3

\* The names declarations may carry: "", "A", "AB", "B" as byte sequences.
EmptyName == <<>>
NameA == <<65>>
NameAB == <<65, 66>>
NameB == <<66>>

DeclNames == {NameA, NameAB, NameB}

\* The dependency sets a record called n may have: any set of other names,
\* or n alone.  (A record that depends on itself never becomes ready, and
\* its further dependencies change no other record's in-degree.)
DepSets(n) == (SUBSET (DeclNames \ {n})) \cup {{n}}

\* The records a visitor can hand over.  A visitor never sets Level, so it
\* is the zero value.  ExtractDependencies is never called on a record whose
\* name is empty (it is not in allItems), so one such record suffices.
ItemUniverse ==
    {it \in [Name : DeclNames, Deps : SUBSET DeclNames, Level : {0}] :
        it.Deps \in DepSets(it.Name)}
        \cup {[Name |-> EmptyName, Deps |-> {}, Level |-> 0]}

RECURSIVE SeqsUpTo(_, _)
SeqsUpTo(S, n) ==
    IF n = 0 THEN {<<>>}
    ELSE LET shorter == SeqsUpTo(S, n - 1)
         IN  shorter \cup {Append(s, x) : s \in {t \in shorter : Len(t) = n - 1}, x \in S}

----------------------------------------------------------------------------
(* Strings and sort.Strings.                                               *)

\* Variant: the shorter string first, equal lengths byte-wise.
RECURSIVE StrLessByLength(_, _)
StrLessByLength(a, b) ==
    IF Len(a) # Len(b) THEN Len(a) < Len(b)
    ELSE IF a = <<>> THEN FALSE
    ELSE IF Head(a) # Head(b) THEN Head(a) < Head(b)
    ELSE StrLessByLength(Tail(a), Tail(b))

\* Go's < on strings: byte-wise lexicographic, a proper prefix is smaller.
RECURSIVE StrLess(_, _)
StrLess(a, b) ==
    IF a = <<>> THEN b # <<>>
    ELSE IF b = <<>> THEN FALSE
    ELSE IF Head(a) # Head(b) THEN Head(a) < Head(b)
    ELSE StrLess(Tail(a), Tail(b))

RECURSIVE InsertSorted(_, _)
InsertSorted(x, s) ==
    IF s = <<>> THEN <<x>>
    ELSE IF StrLess(Head(s), x) THEN <<Head(s)>> \o InsertSorted(x, Tail(s))
    ELSE <<x>> \o s

\* sort.Strings(queue): the queue in non-decreasing order.
RECURSIVE SortStrings(_)
SortStrings(q) ==
    IF q = <<>> THEN <<>> ELSE InsertSorted(Head(q), SortStrings(Tail(q)))

\* The iteration orders a "range" over a map with key set S may take.
IterationOrders(S) ==
    {s \in [1..Cardinality(S) -> S] : \A i, j \in DOMAIN s : i # j => s[i] # s[j]}

\* One fixed iteration order: the keys in increasing order.
SortedOrder(S) ==
    CHOOSE s \in IterationOrders(S) : \A i, j \in DOMAIN s : i < j => StrLess(s[i], s[j])

----------------------------------------------------------------------------
(* The strategies ResolveDependencies is parameterised by.                 *)

GetTypeName(item) == item.Name

ExtractDependencies(item) == item.Deps

----------------------------------------------------------------------------
(* TopologicalDependencyResolver.ResolveDependencies, piece by piece.      *)

\* Variant: the first occurrence of a repeated name is kept.
KeptIndexFirst(its, n) ==
    CHOOSE i \in DOMAIN its :
        /\ GetTypeName(its[i]) = n
        /\ \A j \in DOMAIN its : GetTypeName(its[j]) = n => i <= j

\* Which occurrence of a repeated name the item map keeps: the loop
\* "allItems[name] = item" overwrites, so the last one.
KeptIndex(its, n) ==
    CHOOSE i \in DOMAIN its :
        /\ GetTypeName(its[i]) = n
        /\ \A j \in DOMAIN its : GetTypeName(its[j]) = n => j <= i

\* The item map: every non-empty name of the input, mapped to one item.
BuildAllItems(its) ==
    [n \in {GetTypeName(its[i]) : i \in DOMAIN its} \ {EmptyName} |->
        its[KeptIndex(its, n)]]

\* Variant: the existence test is missing.
DepExistsAlways(all, dep) == TRUE

\* "if _, exists := allItems[dep]; exists"
DepExists(all, dep) == dep \in DOMAIN all

\* The edges loop, iterating allItems in the order ord: every present
\* dependency dep of name appends name to graph[dep] ...
BuildGraph(all, ord) ==
    [dep \in DOMAIN all |->
        SelectSeq(ord, LAMBDA name : dep \in ExtractDependencies(all[name])
                                      /\ DepExists(all, dep))]

\* ... and adds one to inDegree[name].
BuildInDegree(all) ==
    [name \in DOMAIN all |->
        Cardinality({dep \in ExtractDependencies(all[name]) : DepExists(all, dep)})]

\* The initial ready queue, iterating inDegree in the order ord.
InitialQueue(deg, ord) == SelectSeq(ord, LAMBDA name : deg[name] = 0)

\* Variant: a dependent is enqueued as soon as one of its dependencies is
\* emitted, without the test for in-degree zero.
RECURSIVE RelaxNoZeroTest(_, _, _)
RelaxNoZeroTest(dependents, deg, q) ==
    IF dependents = <<>> THEN [inDegree |-> deg, queue |-> q]
    ELSE LET d == Head(dependents)
         IN  RelaxNoZeroTest(Tail(dependents), [deg EXCEPT ![d] = @ - 1], Append(q, d))

\* "inDegree[dependent]--; if inDegree[dependent] == 0 { queue = append(...) }"
\* for every dependent of the current name, in adjacency-list order.
RECURSIVE Relax(_, _, _)
Relax(dependents, deg, q) ==
    IF dependents = <<>> THEN [inDegree |-> deg, queue |-> q]
    ELSE LET d    == Head(dependents)
             deg2 == [deg EXCEPT ![d] = @ - 1]
         IN  Relax(Tail(dependents), deg2, IF deg2[d] = 0 THEN Append(q, d) ELSE q)

\* Variant: the queue is not sorted (plain first-in first-out).
SortQueueSkipped(q) == q

\* The head of the loop: "sort.Strings(queue); current := queue[0]".
SortQueue(q) == SortStrings(q)

\* Variant: the head of the queue is not removed.
PopQueueKept(sorted) == sorted

\* "queue = queue[1:]"
PopQueue(sorted) == Tail(sorted)

\* One iteration of "for len(queue) > 0".  st holds the loop's variables.
KahnIteration(all, g, st) ==
    LET sorted  == SortQueue(st.queue)
        current == Head(sorted)
        rest    == PopQueue(sorted)
    IN  IF current \in st.processed
        THEN [st EXCEPT !.queue = rest]
        ELSE LET emitted == IF current \in DOMAIN all
                            THEN Append(st.result, all[current])
                            ELSE st.result
                 relaxed == Relax(g[current], st.inDegree, rest)
             IN  [queue     |-> relaxed.queue,
                  inDegree  |-> relaxed.inDegree,
                  processed |-> st.processed \cup {current},
                  result    |-> emitted]

\* Variant: the remaining items are taken from the item map, in key order,
\* instead of from the input.
AddRemainingFromMap(its, done, res) ==
    LET all  == BuildAllItems(its)
        keys == SortedOrder(DOMAIN all \ done)
    IN  res \o [k \in DOMAIN keys |-> all[keys[k]]]

\* "Add any remaining items": the input items whose name was not processed,
\* in input order.
AddRemaining(its, done, res) ==
    res \o SelectSeq(its, LAMBDA item : GetTypeName(item) \notin done)

RECURSIVE KahnLoop(_, _, _)
KahnLoop(all, g, st) ==
    IF st.queue = <<>> THEN st ELSE KahnLoop(all, g, KahnIteration(all, g, st))

\* The whole function, with the two map iterations that can matter taking
\* the orders edgeOrd (the edges loop) and queueOrd (the ready-queue loop).
ResolveDependenciesIn(its, edgeOrd, queueOrd) ==
    LET all == BuildAllItems(its)
        deg == BuildInDegree(all)
        g   == BuildGraph(all, edgeOrd)
        st  == KahnLoop(all, g, [queue     |-> InitialQueue(deg, queueOrd),
                                 inDegree  |-> deg,
                                 processed |-> {},
                                 result    |-> <<>>])
    IN  AddRemaining(its, st.processed, st.result)

\* The function under one fixed iteration order of its maps.
ResolveDependencies(its) ==
    LET ord == SortedOrder(DOMAIN BuildAllItems(its))
    IN  ResolveDependenciesIn(its, ord, ord)

----------------------------------------------------------------------------
(* The state machine: one call of ResolveDependencies on the input items.  *)

\* No pure function is being called.
NoCall == [fn |-> "none", arg |-> <<>>]

\* No analysis engine has been built.
NoEngine == [op |-> "none"]

Init ==
    /\ items \in SeqsUpTo(ItemUniverse, MaxItems)
    /\ pc = "build"
    /\ allItems = <<>>
    /\ graph = <<>>
    /\ inDegree = <<>>
    /\ queue = <<>>
    /\ processed = {}
    /\ result = <<>>
    /\ call = NoCall
    /\ ret = <<>>
    /\ engine = NoEngine

\* Lines 928-967: the item map, the graph, the in-degrees, the ready queue.
Build ==
    /\ pc = "build"
    /\ LET all == BuildAllItems(items)
       IN  /\ allItems' = all
           /\ inDegree' = BuildInDegree(all)
           /\ graph' \in {BuildGraph(all, edgeOrd) :
                              edgeOrd \in IterationOrders(DOMAIN all)}
           /\ queue' \in {InitialQueue(BuildInDegree(all), queueOrd) :
                              queueOrd \in IterationOrders(DOMAIN all)}
    /\ processed' = {}
    /\ result' = <<>>
    /\ pc' = "loop"
    /\ UNCHANGED <<items, call, ret, engine>>

\* Lines 969-990: one iteration of the ready loop.
LoopIteration ==
    /\ pc = "loop"
    /\ queue # <<>>
    /\ LET st == KahnIteration(allItems, graph,
                               [queue |-> queue, inDegree |-> inDegree,
                                processed |-> processed, result |-> result])
       IN  /\ queue' = st.queue
           /\ inDegree' = st.inDegree
           /\ processed' = st.processed
           /\ result' = st.result
    /\ UNCHANGED <<items, pc, allItems, graph, call, ret, engine>>

\* Lines 992-1000: the loop has ended; append the rest and return.
Return ==
    /\ pc = "loop"
    /\ queue = <<>>
    /\ result' = AddRemaining(items, processed, result)
    /\ pc' = "done"
    /\ UNCHANGED <<items, allItems, graph, inDegree, queue, processed, call, ret, engine>>

Next == Build \/ LoopIteration \/ Return

Spec == Init /\ [][Next]_vars

\* The function runs to its end: no step of it waits for anything.
FairSpec == Spec /\ WF_vars(Next)

----------------------------------------------------------------------------
(* AlphabeticalDependencyResolver.ResolveDependencies.                     *)

\* Variant: the comparison is the wrong way round.
AlphaLessReversed(a, b) == StrLess(GetTypeName(b), GetTypeName(a))

\* The "less" of sort.Slice: nameI < nameJ.
AlphaLess(a, b) == StrLess(GetTypeName(a), GetTypeName(b))

\* sort.Slice on a slice shorter than 12 is an insertion sort: the next
\* element moves left while it is less than its left neighbour.
RECURSIVE AlphaInsert(_, _)
AlphaInsert(sorted, x) ==
    IF sorted = <<>> THEN <<x>>
    ELSE LET last == sorted[Len(sorted)]
         IN  IF AlphaLess(x, last)
             THEN Append(AlphaInsert(SubSeq(sorted, 1, Len(sorted) - 1), x), last)
             ELSE Append(sorted, x)

RECURSIVE AlphaSortFrom(_, _)
AlphaSortFrom(sorted, rest) ==
    IF rest = <<>> THEN sorted
    ELSE AlphaSortFrom(AlphaInsert(sorted, Head(rest)), Tail(rest))

\* "result := make([]T, len(items)); copy(result, items); sort.Slice(...)"
AlphabeticalResolveDependencies(its) == AlphaSortFrom(<<>>, its)

----------------------------------------------------------------------------
(* Go strings as byte sequences, and the functions of package strings that *)
(* main.go uses.                                                           *)

\* The printable ASCII characters from the space (32) to the underscore
\* (95), and from "a" (97) to the tilde (126).
AsciiTable ==
    " !\"#$%&'()*+,-./0123456789:;<=>?@ABCDEFGHIJKLMNOPQRSTUVWXYZ[\\]^_"

AsciiTableLower == "abcdefghijklmnopqrstuvwxyz{|}~"

CodeOf(c) ==
    LET upper == {k \in 1..Len(AsciiTable) : SubSeq(AsciiTable, k, k) = c}
    IN  IF upper # {} THEN 31 + CHOOSE k \in upper : TRUE
        ELSE 96 + CHOOSE k \in 1..Len(AsciiTableLower) : SubSeq(AsciiTableLower, k, k) = c

\* The bytes of a string literal.
Bytes(lit) == [i \in 1..Len(lit) |-> CodeOf(SubSeq(lit, i, i))]

\* strings.HasPrefix
HasPrefix(s, prefix) ==
    Len(prefix) <= Len(s) /\ SubSeq(s, 1, Len(prefix)) = prefix

\* strings.Index: the first position (from 1) sub occurs at in s, 0 if none.
Index(s, sub) ==
    LET hits == {i \in 1..(Len(s) - Len(sub) + 1) : SubSeq(s, i, i + Len(sub) - 1) = sub}
    IN  IF hits = {} THEN 0 ELSE CHOOSE i \in hits : \A j \in hits : i <= j

\* strings.Contains
Contains(s, sub) == Index(s, sub) # 0

\* strings.ReplaceAll(s, old, ""), old not empty: the occurrences of old are
\* removed from left to right, without overlap, in one pass.
RECURSIVE RemoveAll(_, _)
RemoveAll(s, old) ==
    LET i == Index(s, old)
    IN  IF i = 0 THEN s
        ELSE SubSeq(s, 1, i - 1) \o RemoveAll(SubSeq(s, i + Len(old), Len(s)), old)

\* strings.Split(s, sep), sep not empty: the pieces between the occurrences
\* of sep, empty pieces included.
RECURSIVE Split(_, _)
Split(s, sep) ==
    LET i == Index(s, sep)
    IN  IF i = 0 THEN <<s>>
        ELSE <<SubSeq(s, 1, i - 1)>> \o Split(SubSeq(s, i + Len(sep), Len(s)), sep)

\* strings.Join
RECURSIVE Join(_, _)
Join(parts, sep) ==
    IF parts = <<>> THEN <<>>
    ELSE IF Len(parts) = 1 THEN parts[1]
    ELSE parts[1] \o sep \o Join(Tail(parts), sep)

\* strings.FieldsFunc(s, f) with f(c) = (c \in seps): the maximal runs of
\* bytes outside seps.
RECURSIVE FieldsFuncFrom(_, _, _)
FieldsFuncFrom(s, seps, field) ==
    IF s = <<>> THEN (IF field = <<>> THEN <<>> ELSE <<field>>)
    ELSE IF Head(s) \in seps
         THEN (IF field = <<>> THEN <<>> ELSE <<field>>) \o FieldsFuncFrom(Tail(s), seps, <<>>)
         ELSE FieldsFuncFrom(Tail(s), seps, Append(field, Head(s)))

FieldsFunc(s, seps) == FieldsFuncFrom(s, seps, <<>>)

\* unicode.IsSpace on ASCII: tab, newline, vertical tab, form feed,
\* carriage return, space.
WhiteSpace == {9, 10, 11, 12, 13, 32}

\* strings.Fields
Fields(s) == FieldsFunc(s, WhiteSpace)

\* strings.Trim(s, cutset), cutset given as a set of bytes.
RECURSIVE TrimLeft(_, _)
TrimLeft(s, cutset) ==
    IF s # <<>> /\ Head(s) \in cutset THEN TrimLeft(Tail(s), cutset) ELSE s

RECURSIVE TrimRight(_, _)
TrimRight(s, cutset) ==
    IF s # <<>> /\ s[Len(s)] \in cutset
    THEN TrimRight(SubSeq(s, 1, Len(s) - 1), cutset) ELSE s

Trim(s, cutset) == TrimRight(TrimLeft(s, cutset), cutset)

\* strings.TrimSpace
TrimSpace(s) == Trim(s, WhiteSpace)

----------------------------------------------------------------------------
(* extractTypeDependencies, isBuiltinType, isValidIdentifier.              *)

\* The keys of the map "builtins".
BuiltinTypes ==
    {Bytes("bool"), Bytes("byte"), Bytes("complex64"), Bytes("complex128"),
     Bytes("error"), Bytes("float32"), Bytes("float64"), Bytes("int"),
     Bytes("int8"), Bytes("int16"), Bytes("int32"), Bytes("int64"),
     Bytes("rune"), Bytes("string"), Bytes("uint"), Bytes("uint8"),
     Bytes("uint16"), Bytes("uint32"), Bytes("uint64"), Bytes("uintptr"),
     Bytes("interface"), Bytes("func"), Bytes("struct"), Bytes("any")}

\* Variant: no name is taken for a built-in.
isBuiltinTypeNever(name) == FALSE

\* "return builtins[name]"
isBuiltinType(name) == name \in BuiltinTypes

\* 'a'..'z', 'A'..'Z' or '_'
IsLetterByte(c) == (c >= 97 /\ c <= 122) \/ (c >= 65 /\ c <= 90) \/ c = 95

\* '0'..'9'
IsDigitByte(c) == c >= 48 /\ c <= 57

isValidIdentifier(name) ==
    /\ name # <<>>
    /\ IsLetterByte(name[1])
    /\ \A i \in 2..Len(name) : IsLetterByte(name[i]) \/ IsDigitByte(name[i])

TypeMarkers ==
    [star |-> Bytes("*"),
     slice |-> Bytes("[]"),
     mapOpener |-> Bytes("map["),
     chan |-> Bytes("chan "),
     arrow |-> Bytes("<-"),
     dot |-> Bytes(".")]

\* The five strings.ReplaceAll calls, in the order of the code.
CleanedType(typeStr) ==
    RemoveAll(RemoveAll(RemoveAll(RemoveAll(RemoveAll(typeStr,
        TypeMarkers.star), TypeMarkers.slice), TypeMarkers.mapOpener), TypeMarkers.chan), TypeMarkers.arrow)

\* The bytes the FieldsFunc callback answers true for:
\* ( ) [ ] { } , space tab newline.
TypeSeparators == {40, 41, 91, 93, 123, 125, 44, 32, 9, 10}

\* One turn of the loop over the words: the keys it adds to deps.
WordDependencies(w) ==
    LET word == TrimSpace(w)
    IN  IF word = <<>> THEN {}
        ELSE IF isBuiltinType(word) THEN {}
        ELSE IF Contains(word, TypeMarkers.dot)
             THEN LET parts == Split(word, TypeMarkers.dot)
                  IN  IF Len(parts) = 2 THEN {parts[2]} ELSE {}
        ELSE IF isValidIdentifier(word) THEN {word}
        ELSE {}

\* The keys of the map deps when the loop has ended.
TypeDependencies(typeStr) ==
    LET words == FieldsFunc(CleanedType(typeStr), TypeSeparators)
    IN  UNION {WordDependencies(words[i]) : i \in DOMAIN words}

\* "for dep := range deps { result = append(result, dep) }": the keys in
\* the order the map gives them, which is any order.
extractTypeDependencies(typeStr) == IterationOrders(TypeDependencies(typeStr))

----------------------------------------------------------------------------
(* The ExtractDependencies of each kind of declaration.  Every one of them *)
(* collects the names in a map and returns its keys, in any order.         *)

\* The names extractTypeDependencies gives for each text of a list.
DependenciesOfAll(texts) ==
    UNION {TypeDependencies(texts[i]) : i \in DOMAIN texts}

\* StructDependencyExtractor.ExtractDependencies: "if dep != item.Name".
StructExtractDependencies(item) ==
    IterationOrders(DependenciesOfAll(item.Fields) \ {item.Name})

\* InterfaceDependencyExtractor.ExtractDependencies: "if dep != item.Name".
InterfaceExtractDependencies(item) ==
    IterationOrders(DependenciesOfAll(item.Methods) \ {item.Name})

\* FunctionDependencyExtractor.ExtractDependencies: receiver, parameters,
\* returns; every name is kept.
FunctionExtractDependencies(item) ==
    LET receiverDeps == IF item.Receiver # <<>>
                        THEN TypeDependencies(item.Receiver) ELSE {}
    IN  IterationOrders(receiverDeps
                        \cup DependenciesOfAll(item.Parameters)
                        \cup DependenciesOfAll(item.Returns))

\* VariableDependencyExtractor.ExtractDependencies
VariableExtractDependencies(item) == extractTypeDependencies(item.Type)

\* ConstantDependencyExtractor.ExtractDependencies
ConstantExtractDependencies(item) == extractTypeDependencies(item.Type)

----------------------------------------------------------------------------
(* parseMethodSignature.                                                   *)

OpenParen == Bytes("(")

\* Variant: the first ")" ends the parameters, whatever the depth.
ScanParamEndFirstClose(remainder, i, parenCount) == Index(remainder, <<41>>)

\* The loop over the remainder from position i with parenCount open
\* parentheses: the position (from 1) of the ")" met at depth zero, and 0
\* where the code leaves paramEnd at -1.
RECURSIVE ScanParamEnd(_, _, _)
ScanParamEnd(remainder, i, parenCount) ==
    IF i > Len(remainder) THEN 0
    ELSE IF remainder[i] = 40 THEN ScanParamEnd(remainder, i + 1, parenCount + 1)
    ELSE IF remainder[i] = 41
         THEN (IF parenCount = 0 THEN i
               ELSE ScanParamEnd(remainder, i + 1, parenCount - 1))
    ELSE ScanParamEnd(remainder, i + 1, parenCount)

\* The triple (name, params, returns).
parseMethodSignature(methodSig) ==
    LET parts == Split(methodSig, OpenParen)
    IN  IF Len(parts) < 2 THEN <<<<>>, <<>>, <<>>>>
        ELSE LET name == TrimSpace(parts[1])
                 remainder == Join(Tail(parts), OpenParen)
                 paramEnd == ScanParamEnd(remainder, 1, 0)
             IN  IF paramEnd = 0 THEN <<name, <<>>, <<>>>>
                 ELSE <<name,
                        SubSeq(remainder, 1, paramEnd - 1),
                        TrimSpace(SubSeq(remainder, paramEnd + 1, Len(remainder)))>>

----------------------------------------------------------------------------
(* getZeroValue, generateZeroValues, generateMethodImplementation.         *)

NilLiteral == Bytes("nil")

IntegerTypes ==
    {Bytes("int"), Bytes("int8"), Bytes("int16"), Bytes("int32"), Bytes("int64"),
     Bytes("uint"), Bytes("uint8"), Bytes("uint16"), Bytes("uint32"), Bytes("uint64"),
     Bytes("uintptr"), Bytes("byte"), Bytes("rune")}

FloatTypes == {Bytes("float32"), Bytes("float64")}

ComplexTypes == {Bytes("complex64"), Bytes("complex128")}

\* The string literals of getZeroValue.
ZeroValueLiterals ==
    [emptyComposite |-> Bytes("{}"),
     chanKeyword |-> Bytes("chan"),
     boolType |-> Bytes("bool"),
     falseLiteral |-> Bytes("false"),
     stringType |-> Bytes("string"),
     emptyStringLiteral |-> Bytes("\"\""),
     zeroLiteral |-> Bytes("0"),
     zeroFloatLiteral |-> Bytes("0.0"),
     zeroComplexLiteral |-> Bytes("0+0i"),
     errorType |-> Bytes("error")]

\* The pieces of the format strings of generateMethodImplementation.
MethodLiterals ==
    [minusSign |-> Bytes("-"),
     commentStart |-> Bytes("// "),
     methodCommentMiddle |-> Bytes(" is a no-op implementation (Level "),
     closeParen |-> Bytes(")"),
     methodStart |-> Bytes("func (n *"),
     receiverEnd |-> Bytes(") "),
     blockStart |-> Bytes(" {"),
     todoStart |-> Bytes("// TODO: Implement "),
     levelStart |-> Bytes(" (Level "),
     returnStart |-> Bytes("return "),
     blockEnd |-> Bytes("}")]

\* Variant: the table of the built-in names is missing.
getZeroValueCompositeOnly(typ) ==
    IF Contains(typ, TypeMarkers.dot) THEN NilLiteral ELSE typ \o ZeroValueLiterals.emptyComposite

getZeroValue(typ) ==
    IF \/ HasPrefix(typ, TypeMarkers.star)
       \/ HasPrefix(typ, TypeMarkers.slice)
       \/ HasPrefix(typ, TypeMarkers.mapOpener)
       \/ Contains(typ, ZeroValueLiterals.chanKeyword)
    THEN NilLiteral
    ELSE IF typ = ZeroValueLiterals.boolType THEN ZeroValueLiterals.falseLiteral
    ELSE IF typ = ZeroValueLiterals.stringType THEN ZeroValueLiterals.emptyStringLiteral
    ELSE IF typ \in IntegerTypes THEN ZeroValueLiterals.zeroLiteral
    ELSE IF typ \in FloatTypes THEN ZeroValueLiterals.zeroFloatLiteral
    ELSE IF typ \in ComplexTypes THEN ZeroValueLiterals.zeroComplexLiteral
    ELSE IF typ = ZeroValueLiterals.errorType THEN NilLiteral
    ELSE IF Contains(typ, TypeMarkers.dot) THEN NilLiteral
    ELSE typ \o ZeroValueLiterals.emptyComposite

Comma == Bytes(",")
CommaSpace == Bytes(", ")
Space == Bytes(" ")

\* One turn of the loop over the pieces: the type token handed to
\* getZeroValue.
ReturnTypeToken(piece) ==
    LET typ == TrimSpace(piece)
    IN  IF Contains(typ, Space)
        THEN LET parts == Fields(typ)
             IN  IF Len(parts) >= 2 THEN parts[Len(parts)] ELSE typ
        ELSE typ

generateZeroValues(returnTypes) ==
    IF returnTypes = <<>> THEN <<>>
    ELSE LET types == Split(Trim(returnTypes, {40, 41}), Comma)
             zeroVals == [i \in DOMAIN types |-> getZeroValue(ReturnTypeToken(types[i]))]
         IN  Join(zeroVals, CommaSpace)

\* fmt.Sprintf("%d", n)
RECURSIVE Itoa(_)
Itoa(n) ==
    IF n < 0 THEN MethodLiterals.minusSign \o Itoa(0 - n)
    ELSE IF n < 10 THEN <<48 + n>>
    ELSE Itoa(n \div 10) \o <<48 + (n % 10)>>

Newline == <<10>>
Tab == <<9>>

generateMethodImplementation(methodSig, implName, level) ==
    LET parsed == parseMethodSignature(methodSig)
        methodName == parsed[1]
        params == parsed[2]
        returns == parsed[3]
        zeroValues == generateZeroValues(returns)
    IN  IF methodName = <<>> THEN <<>>
        ELSE MethodLiterals.commentStart \o methodName \o MethodLiterals.methodCommentMiddle
                 \o Itoa(level) \o MethodLiterals.closeParen \o Newline
             \o MethodLiterals.methodStart \o implName \o MethodLiterals.receiverEnd \o methodName
                 \o OpenParen \o params \o MethodLiterals.closeParen
             \o (IF returns # <<>> THEN Space \o returns ELSE <<>>)
             \o MethodLiterals.blockStart \o Newline
             \o Tab \o MethodLiterals.todoStart \o methodName \o MethodLiterals.levelStart
                 \o Itoa(level) \o MethodLiterals.closeParen \o Newline
             \o (IF returns # <<>> /\ zeroValues # <<>>
                 THEN Tab \o MethodLiterals.returnStart \o zeroValues \o Newline ELSE <<>>)
             \o MethodLiterals.blockEnd

----------------------------------------------------------------------------
(* InterfaceNoOpCodeGenerator.GenerateCode, InterfaceImplementationNamer.  *)

\* The pieces of the format strings of GenerateCode.
StubLiterals ==
    [noOpPrefix |-> Bytes("NoOp"),
     typeCommentMiddle |-> Bytes(" is a no-op implementation of "),
     typeCommentLevel |-> Bytes(" interface (Level "),
     typeStart |-> Bytes("type "),
     structStart |-> Bytes(" struct {"),
     levelField |-> Bytes("level int // Dependency level: "),
     constructorCommentStart |-> Bytes("// New"),
     constructorCommentEnd |-> Bytes(" creates a new no-op implementation at the specified level"),
     constructorStart |-> Bytes("func New"),
     constructorParams |-> Bytes("(level int) *"),
     constructorReturn |-> Bytes("return &"),
     constructorFields |-> Bytes("{level: level}"),
     accessorComment |-> Bytes("// GetLevel returns the dependency level of this "),
     accessorEnd |-> Bytes(") GetLevel() int {"),
     accessorReturn |-> Bytes("return n.level")]

\* fmt.Sprintf("NoOp%s", item.Name)
GetImplementationName(item) == StubLiterals.noOpPrefix \o item.Name

\* Variant: the methods are written from the last to the first.
RECURSIVE GenerateMethodsReversed(_, _, _)
GenerateMethodsReversed(methods, implName, level) ==
    IF methods = <<>> THEN <<>>
    ELSE LET methodImpl == generateMethodImplementation(Head(methods), implName, level)
         IN  GenerateMethodsReversed(Tail(methods), implName, level)
             \o (IF methodImpl # <<>> THEN methodImpl \o Newline ELSE <<>>)

\* The loop over item.Methods: what it writes to the builder.
RECURSIVE GenerateMethods(_, _, _)
GenerateMethods(methods, implName, level) ==
    IF methods = <<>> THEN <<>>
    ELSE LET methodImpl == generateMethodImplementation(Head(methods), implName, level)
         IN  (IF methodImpl # <<>> THEN methodImpl \o Newline ELSE <<>>)
             \o GenerateMethods(Tail(methods), implName, level)

GenerateCode(item) ==
    IF item.Name = <<>> THEN <<>>
    ELSE LET implName == StubLiterals.noOpPrefix \o item.Name
             level == Itoa(item.Level)
         IN  MethodLiterals.commentStart \o implName \o StubLiterals.typeCommentMiddle
                 \o item.Name \o StubLiterals.typeCommentLevel \o level \o MethodLiterals.closeParen \o Newline
             \o StubLiterals.typeStart \o implName \o StubLiterals.structStart \o Newline
             \o Tab \o StubLiterals.levelField \o level \o Newline
             \o MethodLiterals.blockEnd \o Newline \o Newline
             \o StubLiterals.constructorCommentStart \o implName
                 \o StubLiterals.constructorCommentEnd \o Newline
             \o StubLiterals.constructorStart \o implName \o StubLiterals.constructorParams \o implName
                 \o MethodLiterals.blockStart \o Newline
             \o Tab \o StubLiterals.constructorReturn \o implName \o StubLiterals.constructorFields \o Newline
             \o MethodLiterals.blockEnd \o Newline \o Newline
             \o StubLiterals.accessorComment \o implName \o Newline
             \o MethodLiterals.methodStart \o implName \o StubLiterals.accessorEnd \o Newline
             \o Tab \o StubLiterals.accessorReturn \o Newline
             \o MethodLiterals.blockEnd \o Newline \o Newline
             \o GenerateMethods(item.Methods, implName, item.Level)

----------------------------------------------------------------------------
(* The inputs of the calls.                                                *)

MaxTypeDepth == 2
MaxFragLen == 3

\* The key types of the maps below.
MapKeyTypes == {Bytes("string"), Bytes("int")}

\* Type expressions over the built-in names as formatType renders them:
\* "*"X, "[]"X, "map["K"]"V, "chan "X, "<-chan "X, nested up to depth d.
RECURSIVE BuiltinTypeExprs(_)
BuiltinTypeExprs(d) ==
    IF d = 0 THEN BuiltinTypes
    ELSE LET sub == BuiltinTypeExprs(d - 1)
         IN  BuiltinTypes
             \cup {TypeMarkers.star \o t : t \in sub}
             \cup {TypeMarkers.slice \o t : t \in sub}
             \cup {TypeMarkers.chan \o t : t \in sub}
             \cup {TypeMarkers.arrow \o TypeMarkers.chan \o t : t \in sub}
             \cup {TypeMarkers.mapOpener \o k \o Bytes("]") \o t : k \in MapKeyTypes, t \in sub}

\* Fragments the specification names, and declaration shapes of built-ins.
NamedFragments ==
    {<<>>, Bytes("int"), Bytes("*[]map[string]UserService"), Bytes("pkg.Reader"),
     Bytes("chan<- int"), Bytes("pkg.int"), Bytes("x."), Bytes("1.5"), Bytes("a.b.c"),
     Bytes("(int, error)"), Bytes("func(int, string) error"),
     Bytes("map[string]interface{}"), Bytes("[3]int"), Bytes("struct{}"),
     Bytes("Handler *services.UserHandler"),
     Bytes("func(ctx Context) (Result, error)")}

\* The bytes of the short fragments: a 1 . * space
FragmentBytes == {97, 49, 46, 42, 32}

TypeFragments ==
    BuiltinTypeExprs(MaxTypeDepth) \cup NamedFragments
        \cup UNION {[1..n -> FragmentBytes] : n \in 0..MaxFragLen}

\* The longest list of fields, methods, parameters or returns of a record.
MaxShapes == 2

\* Declarations as the parser records them: a field, parameter or named
\* return is "name type", an embedded or unnamed one is the type alone.
StructNames == {Bytes("Node"), Bytes("Reader")}

FieldTexts ==
    {Bytes("next *Node"), Bytes("io.Reader"), Bytes("count int"), Bytes("Reader"),
     Bytes("Reader int")}

GoStructs ==
    {[Name |-> n, Fields |-> fs] :
        n \in StructNames, fs \in SeqsUpTo(FieldTexts, MaxShapes)}

MethodTexts ==
    {Bytes("Next() Node"), Bytes("io.Reader"), Bytes("Read([]byte) (int, error)"),
     Bytes("Node() error")}

GoInterfaces ==
    {[Name |-> n, Methods |-> ms] :
        n \in StructNames, ms \in SeqsUpTo(MethodTexts, MaxShapes)}

FunctionNames == {Bytes("Node"), Bytes("handler"), Bytes("Clone")}

ReceiverTexts == {<<>>, Bytes("*List")}

ParameterTexts == {Bytes("n *Node"), Bytes("handler http.Handler"), Bytes("int")}

ReturnTexts == {Bytes("Node"), Bytes("error")}

GoFunctions ==
    {[Name |-> n, Receiver |-> r, Parameters |-> ps, Returns |-> rs] :
        n \in FunctionNames, r \in ReceiverTexts,
        ps \in SeqsUpTo(ParameterTexts, MaxShapes),
        rs \in SeqsUpTo(ReturnTexts, MaxShapes)}

VariableNames == {Bytes("Reader"), Bytes("Level"), Bytes("count")}

VariableTypes == {Bytes("io.Reader"), Bytes("slog.Level"), Bytes("int"), Bytes("*Node")}

GoVariables == {[Name |-> n, Type |-> t] : n \in VariableNames, t \in VariableTypes}

GoConstants == {[Name |-> n, Type |-> t] : n \in VariableNames, t \in VariableTypes}

MaxSigLen == 6

\* The bytes of the short signatures: ( ) f space
SignatureBytes == {40, 41, 102, 32}

NamedSignatures ==
    {Bytes("Do(func(int) string) error"), Bytes("Read(p []byte) (n int, err error)"),
     Bytes("Close() error"), Bytes("Get(key string) (*Widget, error)"),
     Bytes("String"), Bytes("Do("), Bytes("Read(p []byte"), Bytes("Do(func(int) string")}

MethodSignatures ==
    NamedSignatures \cup UNION {[1..n -> SignatureBytes] : n \in 0..MaxSigLen}

\* The signatures a method is generated from.
StubSignatures ==
    NamedSignatures \cup UNION {[1..n -> SignatureBytes] : n \in 0..MaxFragLen}

StubImplNames == {Bytes("NoOpStore")}

StubLevels == {0, 12}

MaxTokenLen == 4
MaxReturns == 2

\* The bytes of the short type tokens: c h a n .
TokenBytes == {99, 104, 97, 110, 46}

NamedTokens ==
    {Bytes("*Widget"), Bytes("[]int"), Bytes("map[string]int"), Bytes("*"), Bytes("[]"),
     Bytes("map["), Bytes("pkg.T"), Bytes("io.Reader"), Bytes("x."), Bytes("Widget"),
     Bytes("Merchant"), Bytes("Channel"), Bytes("_"), Bytes("T1"), Bytes("func(int"),
     Bytes("<-chan"), Bytes("interface{}")}

TypeTokens ==
    BuiltinTypes \cup NamedTokens \cup UNION {[1..n -> TokenBytes] : n \in 0..MaxTokenLen}

\* Return types as formatType renders them.
ReturnTypes ==
    {Bytes("int"), Bytes("error"), Bytes("string"), Bytes("bool"), Bytes("float64"),
     Bytes("*Widget"), Bytes("Widget"), Bytes("Merchant"), Bytes("pkg.T"),
     Bytes("chan int"), Bytes("<-chan Widget"), Bytes("func(int, string) error")}

ReturnTypeLists == SeqsUpTo(ReturnTypes, MaxReturns)

\* The return clause of a signature, as formatFuncType writes it: nothing,
\* the one type, or the types in parentheses with ", " between them.
ReturnClause(types) ==
    IF Len(types) = 0 THEN <<>>
    ELSE IF Len(types) = 1 THEN types[1]
    ELSE Bytes("(") \o Join(types, CommaSpace) \o Bytes(")")

ReturnClauses == {ReturnClause(types) : types \in ReturnTypeLists}

\* Interface records handed to the stub generator.  Level is whatever the
\* record carries.
StubInterfaceNames == {<<>>, Bytes("Store")}

StubMethodTexts ==
    {Bytes("Close() error"), Bytes("Get(string) (*Widget, error)"),
     Bytes("Do(func(int) string) error"), Bytes("io.Reader")}

StubInterfaces ==
    {[Name |-> n, Methods |-> ms, Level |-> l] :
        n \in StubInterfaceNames,
        ms \in SeqsUpTo(StubMethodTexts, MaxShapes),
        l \in StubLevels}

\* The most nodes visited in one file, and the most files processed.
MaxVisits == 2
MaxFiles == 2

\* What InterfaceNodeVisitor.VisitNode returns: GoInterface{} for a node that
\* is no interface type, and else the record of the interface, its Level
\* the zero value.
VisitedRecords ==
    {[Name |-> <<>>, Methods |-> <<>>, Level |-> 0],
     [Name |-> Bytes("Reader"), Methods |-> <<Bytes("Read([]byte) (int, error)")>>, Level |-> 0],
     [Name |-> Bytes("Reader"), Methods |-> <<Bytes("Close() error")>>, Level |-> 0],
     [Name |-> Bytes("Writer"), Methods |-> <<Bytes("Write(Reader) error")>>, Level |-> 0]}

\* The values of the flag -noop-dir: empty, and its default.
NoOpDirs == {<<>>, Bytes("./noop")}

\* The file names GenerateCodeFile is called with.
Filenames == {Bytes("noop/noop_example_interfaces.go")}

\* What the file writer returns: nil, or the error of os.WriteFile.
WriterOutcomes == {"nil", "open noop/noop_example_interfaces.go: permission denied"}

----------------------------------------------------------------------------
(* GenericVisitor and AnalysisEngine, for the engine of the interfaces.    *)

\* Variant: the validator accepts every record.
IsValidAlways(item) == TRUE

\* InterfaceValidator.IsValid
IsValid(item) == item.Name # <<>>

\* The names InterfaceDependencyExtractor.ExtractDependencies returns, for
\* each record the visitor can return.
ExtractedDependencies ==
    [item \in VisitedRecords |->
        UNION {{o[k] : k \in DOMAIN o} : o \in InterfaceExtractDependencies(item)}]

\* GenericCodeGenerator.GenerateImplementation, for each record the visitor
\* can return.
GenerateImplementation == [item \in VisitedRecords |-> GenerateCode(item)]

\* DependencySorter.SortItems of the interface engine.  The resolver reads
\* a record through its TypeNameProvider and its DependencyExtractor only:
\* the record is handed over with the names its extractor returns for it.
\* The result of the topological resolver does not depend on the iteration
\* order of its maps, so the fixed-order evaluation stands for it.
SortItems(useTopologicalSort, its) ==
    LET keyed == [i \in DOMAIN its |->
                     [Name |-> its[i].Name, Methods |-> its[i].Methods,
                      Level |-> its[i].Level, Deps |-> ExtractedDependencies[its[i]]]]
        sorted == IF useTopologicalSort
                  THEN ResolveDependencies(keyed)
                  ELSE AlphabeticalResolveDependencies(keyed)
    IN  [i \in DOMAIN sorted |->
            [Name |-> sorted[i].Name, Methods |-> sorted[i].Methods,
             Level |-> sorted[i].Level]]

\* The first two writes of GenerateCodeFile.
DocumentLiterals ==
    [header |-> Bytes("// Code generated by go-ast-analyzer; DO NOT EDIT.")
                    \o Newline \o Newline,
     packageLine |-> Bytes("package main") \o Newline \o Newline]

\* The loop of GenerateCodeFile over the sorted results.
RECURSIVE GenerateImplementations(_)
GenerateImplementations(results) ==
    IF results = <<>> THEN <<>>
    ELSE LET code == GenerateImplementation[Head(results)]
         IN  (IF code # <<>> THEN code \o Newline ELSE <<>>)
             \o GenerateImplementations(Tail(results))

\* builder.String() at the end of GenerateCodeFile.
GeneratedDocument(results) ==
    DocumentLiterals.header \o DocumentLiterals.packageLine \o GenerateImplementations(results)

----------------------------------------------------------------------------
(* The analysis engine of the interfaces.  An engine is a record: the      *)
(* sorter and code generator it was built with (useTopologicalSort,        *)
(* hasCodeGenerator), the accumulator of its collector (results), what the *)
(* last GetSortedResults returned (sorted), the calls of the file writer   *)
(* during the last GenerateCodeFile (written) and what that call returned  *)
(* (err).  For the properties the record also carries the records          *)
(* VisitNode returned (visited), the accumulator as Analyze left it        *)
(* (collected), what PrintResults was given (printed), the records         *)
(* collected in earlier files (earlier), the number of files processed     *)
(* (files), and the -noop-dir flag of the run (noOpDir).                   *)

\* NewGenericVisitor, NewInterfaceResultCollector, NewAnalysisEngine.
NewEngine(useTopologicalSort, hasCodeGenerator) ==
    [op |-> "NewAnalysisEngine",
     useTopologicalSort |-> useTopologicalSort,
     hasCodeGenerator |-> hasCodeGenerator,
     noOpDir |-> <<>>,
     results |-> <<>>,
     sorted |-> <<>>,
     written |-> <<>>,
     err |-> "nil",
     visited |-> <<>>,
     collected |-> <<>>,
     printed |-> <<>>,
     earlier |-> {},
     files |-> 0]

\* GenericVisitor.Visit on a node that VisitNode maps to rec.
Visit(e, rec) ==
    [e EXCEPT !.visited = Append(@, rec),
              !.results = IF IsValid(rec) THEN Append(@, rec) ELSE @]

\* AnalysisEngine.Analyze: ast.Inspect calls Visit on every node.
RECURSIVE Analyze(_, _)
Analyze(e, nodes) ==
    IF nodes = <<>> THEN e ELSE Analyze(Visit(e, Head(nodes)), Tail(nodes))

\* Variant: the sort is done in the slice of the collector.
GetSortedResultsInPlace(e) ==
    [e EXCEPT !.sorted = SortItems(e.useTopologicalSort, e.results),
              !.results = SortItems(e.useTopologicalSort, e.results)]

\* AnalysisEngine.GetSortedResults: the sorter returns a new slice.
GetSortedResults(e) ==
    [e EXCEPT !.sorted = SortItems(e.useTopologicalSort, e.results)]

\* AnalysisEngine.PrintResults prints what GetSortedResults returns.
PrintResults(e) ==
    LET s == GetSortedResults(e) IN [s EXCEPT !.printed = s.sorted]

\* Variant: the error of the file writer is dropped.
GenerateCodeFileSwallowing(e, filename, outcome) ==
    LET s == GetSortedResults(e)
    IN  [s EXCEPT !.written = <<[content |-> GeneratedDocument(s.sorted),
                                 filename |-> filename,
                                 outcome |-> outcome]>>,
                  !.err = "nil"]

\* AnalysisEngine.GenerateCodeFile.  The file writer returns outcome.
GenerateCodeFile(e, filename, outcome) ==
    IF ~ e.hasCodeGenerator
    THEN [e EXCEPT !.written = <<>>, !.err = "code generator not available"]
    ELSE LET s == GetSortedResults(e)
         IN  [s EXCEPT !.written = <<[content |-> GeneratedDocument(s.sorted),
                                      filename |-> filename,
                                      outcome |-> outcome]>>,
                       !.err = outcome]
----------------------------------------------------------------------------
(* The pure functions as a state machine: a call, then its return.         *)

FnAlphabetical == "AlphabeticalDependencyResolver.ResolveDependencies"
FnExtractType == "extractTypeDependencies"

FnStructExtract == "StructDependencyExtractor.ExtractDependencies"
FnInterfaceExtract == "InterfaceDependencyExtractor.ExtractDependencies"
FnFunctionExtract == "FunctionDependencyExtractor.ExtractDependencies"
FnVariableExtract == "VariableDependencyExtractor.ExtractDependencies"
FnConstantExtract == "ConstantDependencyExtractor.ExtractDependencies"
FnParse == "parseMethodSignature"
FnGenerateMethod == "generateMethodImplementation"
FnGetZeroValue == "getZeroValue"
FnZeroValues == "generateZeroValues"
FnGenerateCode == "InterfaceNoOpCodeGenerator.GenerateCode"
FnGenerateCodeFile == "AnalysisEngine.GenerateCodeFile"

\* The calls the model makes.
CallsAlphabetical ==
    {[fn |-> FnAlphabetical, arg |-> its] : its \in SeqsUpTo(ItemUniverse, MaxItems)}

CallsExtractType ==
    {[fn |-> FnExtractType, arg |-> typeStr] : typeStr \in TypeFragments}

CallsStructExtract ==
    {[fn |-> FnStructExtract, arg |-> item] : item \in GoStructs}

CallsInterfaceExtract ==
    {[fn |-> FnInterfaceExtract, arg |-> item] : item \in GoInterfaces}

CallsFunctionExtract ==
    {[fn |-> FnFunctionExtract, arg |-> item] : item \in GoFunctions}

CallsVariableExtract ==
    {[fn |-> FnVariableExtract, arg |-> item] : item \in GoVariables}

CallsConstantExtract ==
    {[fn |-> FnConstantExtract, arg |-> item] : item \in GoConstants}

CallsParse ==
    {[fn |-> FnParse, arg |-> methodSig] : methodSig \in MethodSignatures}

CallsGenerateMethod ==
    {[fn |-> FnGenerateMethod, arg |-> [methodSig |-> methodSig, implName |-> implName, level |-> level]] : methodSig \in StubSignatures, implName \in StubImplNames, level \in StubLevels}

CallsGetZeroValue ==
    {[fn |-> FnGetZeroValue, arg |-> typ] : typ \in TypeTokens}

CallsZeroValues ==
    {[fn |-> FnZeroValues, arg |-> returnTypes] : returnTypes \in ReturnClauses}

CallsGenerateCode ==
    {[fn |-> FnGenerateCode, arg |-> item] : item \in StubInterfaces}

\* GenerateCodeFile on an engine that has analysed some nodes.
CallsGenerateCodeFile ==
    {[fn |-> FnGenerateCodeFile,
      arg |-> [engine |-> Analyze(NewEngine(t, g), nodes),
               filename |-> filename, outcome |-> outcome]] :
        t \in BOOLEAN, g \in BOOLEAN, nodes \in SeqsUpTo(VisitedRecords, MaxVisits),
        filename \in Filenames, outcome \in WriterOutcomes}

CallInit ==
    /\ \/ call \in CallsAlphabetical
       \/ call \in CallsExtractType
       \/ call \in CallsStructExtract
       \/ call \in CallsInterfaceExtract
       \/ call \in CallsFunctionExtract
       \/ call \in CallsVariableExtract
       \/ call \in CallsConstantExtract
       \/ call \in CallsParse
       \/ call \in CallsGenerateMethod
       \/ call \in CallsGetZeroValue
       \/ call \in CallsZeroValues
       \/ call \in CallsGenerateCode
       \/ call \in CallsGenerateCodeFile
    /\ pc = "call"
    /\ ret = <<>>
    /\ items = <<>>
    /\ allItems = <<>>
    /\ graph = <<>>
    /\ inDegree = <<>>
    /\ queue = <<>>
    /\ processed = {}
    /\ result = <<>>
    /\ engine = NoEngine

\* What every call leaves alone.
Returned ==
    /\ pc' = "returned"
    /\ UNCHANGED <<items, allItems, graph, inDegree, queue, processed, result, call, engine>>

CallAlphabetical ==
    /\ pc = "call"
    /\ call.fn = FnAlphabetical
    /\ ret' = AlphabeticalResolveDependencies(call.arg)
    /\ Returned

CallExtractTypeDependencies ==
    /\ pc = "call"
    /\ call.fn = FnExtractType
    /\ ret' \in extractTypeDependencies(call.arg)
    /\ Returned

CallStructExtractDependencies ==
    /\ pc = "call"
    /\ call.fn = FnStructExtract
    /\ ret' \in StructExtractDependencies(call.arg)
    /\ Returned

CallInterfaceExtractDependencies ==
    /\ pc = "call"
    /\ call.fn = FnInterfaceExtract
    /\ ret' \in InterfaceExtractDependencies(call.arg)
    /\ Returned

CallFunctionExtractDependencies ==
    /\ pc = "call"
    /\ call.fn = FnFunctionExtract
    /\ ret' \in FunctionExtractDependencies(call.arg)
    /\ Returned

CallVariableExtractDependencies ==
    /\ pc = "call"
    /\ call.fn = FnVariableExtract
    /\ ret' \in VariableExtractDependencies(call.arg)
    /\ Returned

CallConstantExtractDependencies ==
    /\ pc = "call"
    /\ call.fn = FnConstantExtract
    /\ ret' \in ConstantExtractDependencies(call.arg)
    /\ Returned

CallParseMethodSignature ==
    /\ pc = "call"
    /\ call.fn = FnParse
    /\ ret' = parseMethodSignature(call.arg)
    /\ Returned

CallGenerateMethodImplementation ==
    /\ pc = "call"
    /\ call.fn = FnGenerateMethod
    /\ ret' = generateMethodImplementation(call.arg.methodSig, call.arg.implName, call.arg.level)
    /\ Returned

CallGetZeroValue ==
    /\ pc = "call"
    /\ call.fn = FnGetZeroValue
    /\ ret' = getZeroValue(call.arg)
    /\ Returned

CallGenerateZeroValues ==
    /\ pc = "call"
    /\ call.fn = FnZeroValues
    /\ ret' = generateZeroValues(call.arg)
    /\ Returned

CallGenerateCode ==
    /\ pc = "call"
    /\ call.fn = FnGenerateCode
    /\ ret' = GenerateCode(call.arg)
    /\ Returned

CallGenerateCodeFile ==
    /\ pc = "call"
    /\ call.fn = FnGenerateCodeFile
    /\ ret' = GenerateCodeFile(call.arg.engine, call.arg.filename, call.arg.outcome)
    /\ Returned

CallNext ==
    \/ CallAlphabetical
    \/ CallExtractTypeDependencies
    \/ CallStructExtractDependencies
    \/ CallInterfaceExtractDependencies
    \/ CallFunctionExtractDependencies
    \/ CallVariableExtractDependencies
    \/ CallConstantExtractDependencies
    \/ CallParseMethodSignature
    \/ CallGenerateMethodImplementation
    \/ CallGetZeroValue
    \/ CallGenerateZeroValues
    \/ CallGenerateCode
    \/ CallGenerateCodeFile

CallSpec == CallInit /\ [][CallNext]_vars

----------------------------------------------------------------------------
(* A run of the program over the files of a directory, for the engine of   *)
(* the interfaces.                                                         *)

\* main has parsed its flags: the sorter, -noop and -noop-dir.
EngineInit ==
    /\ engine \in {[NewEngine(t, g) EXCEPT !.op = "main", !.noOpDir = d] :
                      t \in BOOLEAN, g \in BOOLEAN, d \in NoOpDirs}
    /\ pc = "engine"
    /\ call = NoCall
    /\ ret = <<>>
    /\ items = <<>>
    /\ allItems = <<>>
    /\ graph = <<>>
    /\ inDegree = <<>>
    /\ queue = <<>>
    /\ processed = {}
    /\ result = <<>>

\* Variant: the next file is collected into the accumulator of this one.
ProcessFileSharingResults ==
    \E nodes \in SeqsUpTo(VisitedRecords, MaxVisits),
       filename \in Filenames, outcome \in WriterOutcomes :
        /\ pc = "engine"
        /\ engine.files < MaxFiles
        /\ LET built == [NewEngine(engine.useTopologicalSort, engine.hasCodeGenerator)
                            EXCEPT !.op = "processFile",
                                   !.noOpDir = engine.noOpDir,
                                   !.results = engine.results,
                                   !.earlier = engine.earlier \cup
                                       {engine.results[i] : i \in DOMAIN engine.results},
                                   !.files = engine.files + 1]
               analysed == Analyze(built, nodes)
               printed == PrintResults([analysed EXCEPT !.collected = analysed.results])
           IN  engine' = IF engine.hasCodeGenerator /\ engine.noOpDir # <<>>
                         THEN GenerateCodeFile(printed, filename, outcome)
                         ELSE printed
        /\ UNCHANGED <<items, pc, allItems, graph, inDegree, queue, processed,
                       result, call, ret>>

\* processFile on the next file: a new visitor, collector and engine; every
\* node of every declaration is visited; the results are printed; with
\* -noop and a directory the stubs are generated and written, and the
\* error of GenerateCodeFile is logged, not returned.
ProcessFile ==
    \E nodes \in SeqsUpTo(VisitedRecords, MaxVisits),
       filename \in Filenames, outcome \in WriterOutcomes :
        /\ pc = "engine"
        /\ engine.files < MaxFiles
        /\ LET built == [NewEngine(engine.useTopologicalSort, engine.hasCodeGenerator)
                            EXCEPT !.op = "processFile",
                                   !.noOpDir = engine.noOpDir,
                                   !.earlier = engine.earlier \cup
                                       {engine.results[i] : i \in DOMAIN engine.results},
                                   !.files = engine.files + 1]
               analysed == Analyze(built, nodes)
               printed == PrintResults([analysed EXCEPT !.collected = analysed.results])
           IN  engine' = IF engine.hasCodeGenerator /\ engine.noOpDir # <<>>
                         THEN GenerateCodeFile(printed, filename, outcome)
                         ELSE printed
        /\ UNCHANGED <<items, pc, allItems, graph, inDegree, queue, processed,
                       result, call, ret>>

EngineNext == ProcessFile

EngineSpec == EngineInit /\ [][EngineNext]_vars
----------------------------------------------------------------------------
(* Vocabulary of the properties.  These are stated independently of the    *)
(* operators above.                                                        *)

Done == pc = "done"

\* a < b in byte-wise lexicographic order, by the first position they differ at.
LexLess(a, b) ==
    \E k \in 1..Len(b) :
        /\ \A j \in 1..(k - 1) : j <= Len(a) /\ a[j] = b[j]
        /\ (k > Len(a) \/ a[k] < b[k])

NamesOf(its) == {its[i].Name : i \in DOMAIN its}

DistinctNames(its) == \A i, j \in DOMAIN its : i # j => its[i].Name # its[j].Name

\* How often the record v occurs in the sequence s.
Count(s, v) == Cardinality({i \in DOMAIN s : s[i] = v})

\* The index of the last input item called n.
LastIndexOf(its, n) ==
    CHOOSE i \in DOMAIN its :
        its[i].Name = n /\ ~ \E j \in DOMAIN its : j > i /\ its[j].Name = n

\* The dependencies of the input item at index i on names present in the input.
PresentDeps(its, i) == its[i].Deps \cap (NamesOf(its) \ {EmptyName})

\* The names the item at index i depends on in one step or several.
RECURSIVE DepsWithin(_, _, _)
DepsWithin(its, S, k) ==
    IF k = 0 THEN S
    ELSE DepsWithin(its,
                    S \cup UNION {PresentDeps(its, j) : j \in {h \in DOMAIN its : its[h].Name \in S}},
                    k - 1)

TransitiveDeps(its, i) == DepsWithin(its, PresentDeps(its, i), Len(its))

\* No item depends, in one step or several, on its own name.
Acyclic(its) == \A i \in DOMAIN its : its[i].Name \notin TransitiveDeps(its, i)

\* The input with its i-th and (i+1)-th items exchanged.
SwapAdjacent(its, i) ==
    [k \in DOMAIN its |-> IF k = i THEN its[i + 1] ELSE IF k = i + 1 THEN its[i] ELSE its[k]]

\* The items with every dependency on a name outside "present" removed.
WithoutAbsentDeps(its, present) ==
    [k \in DOMAIN its |-> [its[k] EXCEPT !.Deps = @ \cap present]]

\* The names that are vertices with no unmet dependency and not yet emitted.
Ready == {n \in DOMAIN allItems : inDegree[n] = 0 /\ n \notin processed}

\* An input item that never becomes ready: its name is no vertex, or its
\* in-degree is still positive when the loop has ended.
Stuck(item) == item.Name \notin DOMAIN inDegree \/ inDegree[item.Name] > 0

----------------------------------------------------------------------------
(* C1.  For an input with distinct names and an acyclic dependency graph   *)
(* (edges restricted to names present), whenever B's dependency set holds  *)
(* the name of A and both are in the input, A stands at a strictly smaller *)
(* index than B in the returned sequence.                                  *)
C1_TopologicalOrder ==
    (Done /\ DistinctNames(items) /\ Acyclic(items)) =>
        \A a, b \in DOMAIN items :
            items[a].Name \in items[b].Deps =>
                \E i, j \in DOMAIN result :
                    /\ result[i] = items[a]
                    /\ result[j] = items[b]
                    /\ i < j

\* A chain of three: "B" depends on "AB", "AB" depends on "A", sorted.
C1_Witness ==
    /\ Done
    /\ DistinctNames(items) /\ Acyclic(items)
    /\ Len(items) = 3
    /\ \E a, b, c \in DOMAIN items :
          /\ items[a].Name = NameB /\ items[a].Deps = {NameAB}
          /\ items[b].Name = NameAB /\ items[b].Deps = {NameA}
          /\ items[c].Name = NameA /\ items[c].Deps = {}
          /\ result = <<items[c], items[b], items[a]>>

(* C2.  The returned sequence holds every input item exactly once: it has  *)
(* the length of the input and is a permutation of it, whatever the input  *)
(* (cycles, empty names, repeated names).                                  *)
C2_Permutation ==
    Done =>
        /\ Len(result) = Len(items)
        /\ \A i \in DOMAIN items : Count(result, items[i]) = Count(items, items[i])

(* C3.  After the sort every returned item's Level equals its zero-based   *)
(* index in the returned sequence.                                         *)
C3_LevelIsIndex ==
    Done => \A i \in DOMAIN result : result[i].Level = i - 1

(* C4.  Determinism: whatever order the maps are iterated in, the run      *)
(* returns the sequence that the fixed-order evaluation returns.           *)
C4_Deterministic ==
    Done => result = ResolveDependencies(items)

\* A run over at least two independent items whose adjacency list was
\* built in an order other than the sorted one.
C4_Witness ==
    /\ Done
    /\ Len(result) = 3
    /\ \E n \in DOMAIN graph :
          /\ Len(graph[n]) = 2
          /\ LexLess(graph[n][2], graph[n][1])

(* C5 as stated.  The output depends only on the set of input items:       *)
(* exchanging two neighbouring input items (and hence any permutation of   *)
(* the input) leaves the output unchanged.                                 *)
C5_OrderIndependent ==
    Done =>
        \A i \in 1..(Len(items) - 1) :
            ResolveDependencies(SwapAdjacent(items, i)) = result

(* C5 amended.  For an input with distinct names and an acyclic dependency *)
(* graph, exchanging two neighbouring input items (and hence any           *)
(* permutation of the input) leaves the output unchanged.                  *)
C5_OrderIndependentAcyclic ==
    (Done /\ DistinctNames(items) /\ Acyclic(items)) =>
        \A i \in 1..(Len(items) - 1) :
            ResolveDependencies(SwapAdjacent(items, i)) = result

\* Three distinct items supplied in decreasing name order, one dependency.
C5_Witness ==
    /\ Done
    /\ DistinctNames(items) /\ Acyclic(items)
    /\ Len(items) = 3
    /\ LexLess(items[3].Name, items[2].Name)
    /\ LexLess(items[2].Name, items[1].Name)
    /\ items[3].Name # EmptyName
    /\ items[3].Deps = {items[1].Name}

(* C6.  Ready-set tie-break: whenever the loop emits an item, its name is  *)
(* ready and no ready name is lexicographically smaller.                   *)
C6_TieBreak ==
    [][(pc = "loop" /\ Len(result') = Len(result) + 1 /\ pc' = "loop") =>
          LET emitted == result'[Len(result')].Name
          IN  /\ emitted \in Ready
              /\ \A n \in Ready : ~ LexLess(n, emitted)]_vars

\* "B" was supplied before "A", both are independent, and "A" was emitted
\* first while "B" is still ready.
C6_Witness ==
    /\ pc = "loop"
    /\ Len(items) >= 2
    /\ items[1].Name = NameB /\ items[2].Name = NameA
    /\ Len(result) = 1
    /\ result[1].Name = NameA
    /\ NameB \in Ready

(* C7.  Cycle tolerance: the items that never become ready appear exactly  *)
(* once each, after every item the ready loop emitted, in input order.     *)
C7_CycleFallback ==
    Done =>
        LET tail  == SelectSeq(items, Stuck)
            ahead == Len(result) - Len(tail)
        IN  /\ ahead >= 0
            /\ \A k \in 1..ahead : ~ Stuck(result[k])
            /\ \A k \in 1..Len(tail) : result[ahead + k] = tail[k]
            /\ \A i \in DOMAIN items :
                  Stuck(items[i]) => Count(result, items[i]) = Count(items, items[i])

\* "B" and "AB" depend on each other and were supplied as B, AB; "A" is
\* independent and supplied last.
C7_Witness ==
    /\ Done
    /\ Len(items) = 3
    /\ items[1].Name = NameB /\ items[1].Deps = {NameAB}
    /\ items[2].Name = NameAB /\ items[2].Deps = {NameB}
    /\ items[3].Name = NameA /\ items[3].Deps = {}
    /\ result = <<items[3], items[1], items[2]>>

(* C8.  The function terminates on every input, cyclic or not: the ready   *)
(* queue never holds a name twice, and the run reaches its return.         *)
C8_Terminates ==
    /\ [](\A i, j \in DOMAIN queue : i # j => queue[i] # queue[j])
    /\ <>Done

\* A run on a cyclic input that has returned.
C8_Witness ==
    /\ Done
    /\ ~ Acyclic(items)
    /\ Len(items) = 3
    /\ processed # {}

(* C9.  Dependencies on names absent from the input change nothing: they   *)
(* add nothing to an in-degree, and the output is the output for the input *)
(* with those dependencies removed.                                        *)
C9_AbsentDepsIgnored ==
    LET present == NamesOf(items) \ {EmptyName}
    IN  /\ pc # "build" =>
              \A n \in DOMAIN inDegree :
                  inDegree[n] <= Cardinality(allItems[n].Deps \cap present)
        /\ Done =>
              WithoutAbsentDeps(result, present)
                  = ResolveDependencies(WithoutAbsentDeps(items, present))

\* An item that depends on an absent name and on a present one was emitted
\* by the ready loop, after the present one.
C9_Witness ==
    /\ Done
    /\ Len(result) = 2
    /\ result[1].Name = NameB /\ result[1].Deps = {}
    /\ result[2].Name = NameA /\ result[2].Deps = {NameAB, NameB}
    /\ NameA \in processed

(* C10.  Name collision is last-write-wins: the vertex of a repeated name  *)
(* is the later declaration, and so are its dependency set and the record  *)
(* the ready loop emits.                                                   *)
C10_LastWriteWins ==
    pc = "loop" =>
        /\ \A n \in DOMAIN allItems : allItems[n] = items[LastIndexOf(items, n)]
        /\ \A n \in DOMAIN inDegree :
              inDegree[n] <= Cardinality(PresentDeps(items, LastIndexOf(items, n)))
        /\ \A k \in DOMAIN result :
              result[k] = items[LastIndexOf(items, result[k].Name)]

\* "A" is declared twice, first depending on "B", then on nothing; the
\* ready loop has emitted the second declaration ahead of "B".
C10_Witness ==
    /\ pc = "loop"
    /\ Len(items) = 3
    /\ items[1].Name = NameA /\ items[1].Deps = {NameB}
    /\ items[2].Name = NameB /\ items[2].Deps = {}
    /\ items[3].Name = NameA /\ items[3].Deps = {}
    /\ Len(result) >= 1
    /\ result[1] = items[3]

(* C11.  The alphabetical resolver returns a permutation of its input     *)
(* with the names in non-decreasing byte-wise order, and the order it      *)
(* returns does not depend on the items' dependencies.                     *)
C11_AlphabeticalSort ==
    (pc = "returned" /\ call.fn = FnAlphabetical) =>
        LET NoDeps(its) == [k \in DOMAIN its |-> [its[k] EXCEPT !.Deps = {}]]
        IN  /\ Len(ret) = Len(call.arg)
            /\ \A i \in DOMAIN call.arg : Count(ret, call.arg[i]) = Count(call.arg, call.arg[i])
            /\ \A i, j \in DOMAIN ret : i < j => ~ LexLess(ret[j].Name, ret[i].Name)
            /\ NoDeps(ret) = AlphabeticalResolveDependencies(NoDeps(call.arg))

\* "B" (depending on "AB"), "AB" (depending on "B") and "A" were supplied in
\* that order and returned as A, AB, B.
C11_Witness ==
    /\ pc = "returned" /\ call.fn = FnAlphabetical
    /\ Len(call.arg) = 3
    /\ call.arg[1].Name = NameB /\ call.arg[1].Deps = {NameAB}
    /\ call.arg[2].Name = NameAB /\ call.arg[2].Deps = {NameB}
    /\ call.arg[3].Name = NameA
    /\ ret = <<call.arg[3], call.arg[2], call.arg[1]>>


----------------------------------------------------------------------------
(* Claims about extractTypeDependencies.                                   *)

\* The elements of a sequence.
Range(s) == {s[i] : i \in DOMAIN s}

\* A bare identifier: a letter or underscore, then letters, digits or
\* underscores.
IsIdentifier(name) ==
    LET letters == (65..90) \cup (97..122) \cup {95}
        digits == 48..57
    IN  /\ Len(name) >= 1
        /\ name[1] \in letters
        /\ \A i \in 2..Len(name) : name[i] \in letters \cup digits

\* Fragments made of markers and built-in names only: the type expressions
\* over the built-in names, the send-only channel of Go ("chan<- int")
\* among them.
BuiltinOnlyFragments ==
    BuiltinTypeExprs(MaxTypeDepth)
        \cup {<<>>, Bytes("int"), Bytes("chan<- int"), Bytes("(int, error)"),
              Bytes("func(int, string) error"),
              Bytes("map[string]interface{}"), Bytes("struct{}")}

\* C12: extractTypeDependencies returns nothing for a fragment made only of
\* pointer, slice, map and channel markers and built-in type names (the empty
\* fragment and "int" among them), exactly UserService for
\* "*[]map[string]UserService", and exactly Reader for "pkg.Reader".
C12_StripsMarkersAndBuiltins ==
    (pc = "returned" /\ call.fn = FnExtractType) =>
        /\ call.arg \in BuiltinOnlyFragments => ret = <<>>
        /\ call.arg = Bytes("*[]map[string]UserService") => ret = <<Bytes("UserService")>>
        /\ call.arg = Bytes("pkg.Reader") => ret = <<Bytes("Reader")>>

\* C13: every name extractTypeDependencies returns, for any fragment, is a
\* bare valid identifier and is not a built-in type name, the names taken
\* from dotted tokens included.
C13_ReturnsIdentifiers ==
    (pc = "returned" /\ call.fn = FnExtractType) =>
        \A name \in Range(ret) : IsIdentifier(name) /\ name \notin BuiltinTypes

----------------------------------------------------------------------------
(* Claims about the ExtractDependencies of the declaration kinds.          *)

ExtractFns ==
    {FnStructExtract, FnInterfaceExtract, FnFunctionExtract,
     FnVariableExtract, FnConstantExtract}

\* C14: for a struct, interface, function, variable or constant record,
\* ExtractDependencies never returns the record's own name.
C14_NoSelfReference ==
    (pc = "returned" /\ call.fn \in ExtractFns) =>
        call.arg.Name \notin Range(ret)

----------------------------------------------------------------------------
(* Claims about parseMethodSignature and generateMethodImplementation.     *)

\* Opening minus closing parentheses.
ParenDepth(s) ==
    Cardinality({i \in DOMAIN s : s[i] = 40}) - Cardinality({i \in DOMAIN s : s[i] = 41})

\* Every ")" closes an earlier "(", and none stays open.
Balanced(s) ==
    /\ ParenDepth(s) = 0
    /\ \A k \in 0..Len(s) : ParenDepth(SubSeq(s, 1, k)) >= 0

Blank(c) == c \in {9, 10, 11, 12, 13, 32}

\* s without the white space at its two ends.
Trimmed(s) ==
    LET solid == {i \in DOMAIN s : ~ Blank(s[i])}
    IN  IF solid = {} THEN <<>>
        ELSE SubSeq(s,
                    CHOOSE i \in solid : \A k \in solid : i <= k,
                    CHOOSE j \in solid : \A k \in solid : k <= j)

\* sig reads Name "(" P ")" R with "(" at i and ")" at j: Name is free of
\* "(" and of white space at its ends, and P is balanced.
SplitsAt(sig, i, j) ==
    /\ sig[i] = 40
    /\ sig[j] = 41
    /\ 40 \notin Range(SubSeq(sig, 1, i - 1))
    /\ Trimmed(SubSeq(sig, 1, i - 1)) = SubSeq(sig, 1, i - 1)
    /\ Balanced(SubSeq(sig, i + 1, j - 1))

\* C15: for a signature Name(P) R whose parameter list P has balanced
\* parentheses, parseMethodSignature returns Name, P unchanged, and R
\* without the white space around it.
C15_ParseBalancedSignature ==
    (pc = "returned" /\ call.fn = FnParse) =>
        \A i \in DOMAIN call.arg : \A j \in (i + 1)..Len(call.arg) :
            SplitsAt(call.arg, i, j) =>
                ret = <<SubSeq(call.arg, 1, i - 1),
                        SubSeq(call.arg, i + 1, j - 1),
                        Trimmed(SubSeq(call.arg, j + 1, Len(call.arg)))>>

C15_Witness ==
    /\ pc = "returned"
    /\ call.fn = FnParse
    /\ call.arg = Bytes("Do(func(int) string) error")
    /\ ret = <<Bytes("Do"), Bytes("func(int) string"), Bytes("error")>>

\* The signature has a "(" and a ")" that closes it at depth zero.
HasBoundary(sig) ==
    \E i \in DOMAIN sig : \E j \in (i + 1)..Len(sig) :
        /\ sig[i] = 40
        /\ sig[j] = 41
        /\ 40 \notin Range(SubSeq(sig, 1, i - 1))
        /\ Balanced(SubSeq(sig, i + 1, j - 1))

\* C16: a signature with no "(" at all, or with a "(" that no ")" closes at
\* depth zero, gives no generated method.
C16_NoBoundaryNoMethod ==
    (pc = "returned" /\ call.fn = FnGenerateMethod) =>
        (~ HasBoundary(call.arg.methodSig) => ret = <<>>)

----------------------------------------------------------------------------
(* Claims about getZeroValue and generateZeroValues.                       *)

\* s starts with p.
Begins(s, p) == Len(s) >= Len(p) /\ \A i \in DOMAIN p : s[i] = p[i]

IntegerFamily ==
    {Bytes("int"), Bytes("int8"), Bytes("int16"), Bytes("int32"), Bytes("int64"),
     Bytes("uint"), Bytes("uint8"), Bytes("uint16"), Bytes("uint32"), Bytes("uint64"),
     Bytes("uintptr"), Bytes("byte"), Bytes("rune")}

TableNames ==
    IntegerFamily \cup {Bytes("bool"), Bytes("string"), Bytes("float32"), Bytes("float64"),
                        Bytes("complex64"), Bytes("complex128"), Bytes("error")}

MarkerPrefixed(typ) ==
    Begins(typ, Bytes("*")) \/ Begins(typ, Bytes("[]")) \/ Begins(typ, Bytes("map["))

\* C17: getZeroValue follows the table: a token that starts with "*", "[]"
\* or "map[" gives nil, bool false, string "", the integer family 0, the
\* floats 0.0, the complex types 0+0i, error nil, and any other token with a
\* "." nil; generateZeroValues gives "0, nil" for "(int, error)", "" in
\* quotes for "string" and nil for "*Widget".
C17_ZeroValueTable ==
    /\ (pc = "returned" /\ call.fn = FnGetZeroValue) =>
        /\ MarkerPrefixed(call.arg) => ret = Bytes("nil")
        /\ call.arg = Bytes("bool") => ret = Bytes("false")
        /\ call.arg = Bytes("string") => ret = <<34, 34>>
        /\ call.arg \in IntegerFamily => ret = Bytes("0")
        /\ call.arg \in {Bytes("float32"), Bytes("float64")} => ret = Bytes("0.0")
        /\ call.arg \in {Bytes("complex64"), Bytes("complex128")} => ret = Bytes("0+0i")
        /\ call.arg = Bytes("error") => ret = Bytes("nil")
        /\ (call.arg \notin TableNames /\ 46 \in Range(call.arg)) => ret = Bytes("nil")
    /\ (pc = "returned" /\ call.fn = FnZeroValues) =>
        /\ call.arg = Bytes("(int, error)") => ret = Bytes("0, nil")
        /\ call.arg = Bytes("string") => ret = <<34, 34>>
        /\ call.arg = Bytes("*Widget") => ret = Bytes("nil")

C17_Witness ==
    /\ pc = "returned"
    /\ call.fn = FnZeroValues
    /\ call.arg = Bytes("(int, error)")
    /\ ret = Bytes("0, nil")

\* C18: a return clause that is one channel type ("chan int",
\* "<-chan Widget") is synthesized as nil.
C18_ChannelIsNil ==
    (/\ pc = "returned"
     /\ call.fn = FnZeroValues
     /\ call.arg \in ReturnTypes
     /\ Begins(call.arg, Bytes("chan ")) \/ Begins(call.arg, Bytes("<-chan "))) =>
        ret = Bytes("nil")

\* The keywords of Go that begin a type.
TypeKeywords ==
    {Bytes("chan"), Bytes("func"), Bytes("interface"), Bytes("map"), Bytes("struct")}

\* C19: a type token that is an identifier and not a built-in name (Widget,
\* Merchant, Channel) is synthesized as that name followed by "{}".
C19_IdentifierIsComposite ==
    (/\ pc = "returned"
     /\ call.fn = FnGetZeroValue
     /\ IsIdentifier(call.arg)
     /\ call.arg \notin BuiltinTypes
     /\ call.arg \notin TypeKeywords) =>
        ret = call.arg \o Bytes("{}")

\* C20: for the return clause of a list of declared return types,
\* generateZeroValues gives one zero value for each type, in the order of
\* the list, with ", " between them.
C20_OneValuePerType ==
    (pc = "returned" /\ call.fn = FnZeroValues) =>
        \A types \in ReturnTypeLists :
            (types # <<>> /\ call.arg = ReturnClause(types)) =>
                LET values == Split(ret, CommaSpace)
                IN  /\ Len(values) = Len(types)
                    /\ \A i \in DOMAIN types : values[i] = generateZeroValues(types[i])

----------------------------------------------------------------------------
(* Claims about the generated stub.                                        *)

\* The lines of a text.
LinesOf(text) == Split(text, <<10>>)

\* The first line of the placeholder method of a parsed signature.
MethodHeader(implName, parsed) ==
    Bytes("func (n *") \o implName \o Bytes(") ") \o parsed[1]
        \o Bytes("(") \o parsed[2] \o Bytes(")")
        \o (IF parsed[3] = <<>> THEN <<>> ELSE Bytes(" ") \o parsed[3])
        \o Bytes(" {")

\* The return line of the placeholder method of a parsed signature, and the
\* empty text when the method returns nothing.
MethodReturn(parsed) ==
    IF parsed[3] = <<>> \/ generateZeroValues(parsed[3]) = <<>> THEN <<>>
    ELSE <<9>> \o Bytes("return ") \o generateZeroValues(parsed[3])

\* The lines of the stub after its type, constructor and level accessor,
\* without the fixed lines of each method (comment, TODO, closing brace).
MethodLinesOf(text, implName) ==
    SelectSeq(LinesOf(text),
              LAMBDA line :
                  \/ /\ Begins(line, Bytes("func (n *") \o implName \o Bytes(") "))
                     /\ line # Bytes("func (n *") \o implName \o Bytes(") GetLevel() int {")
                  \/ /\ Begins(line, <<9>> \o Bytes("return "))
                     /\ line # <<9>> \o Bytes("return n.level")
                     /\ ~ Begins(line, <<9>> \o Bytes("return &")))

\* The header and return lines of the methods of the signatures sigs, in
\* their order.
RECURSIVE ExpectedMethodLines(_, _)
ExpectedMethodLines(sigs, implName) ==
    IF sigs = <<>> THEN <<>>
    ELSE LET parsed == parseMethodSignature(Head(sigs))
         IN  <<MethodHeader(implName, parsed)>>
             \o (IF MethodReturn(parsed) = <<>> THEN <<>> ELSE <<MethodReturn(parsed)>>)
             \o ExpectedMethodLines(Tail(sigs), implName)

\* The stub has the type, the constructor and the level accessor of implName.
HasStubPrelude(text, implName) ==
    /\ Begins(text, Bytes("// ") \o implName \o Bytes(" is a no-op implementation of "))
    /\ \E i \in DOMAIN LinesOf(text) :
          LinesOf(text)[i] = Bytes("type ") \o implName \o Bytes(" struct {")
    /\ \E i \in DOMAIN LinesOf(text) :
          LinesOf(text)[i] = Bytes("func New") \o implName \o Bytes("(level int) *")
                                 \o implName \o Bytes(" {")
    /\ \E i \in DOMAIN LinesOf(text) :
          LinesOf(text)[i] = Bytes("func (n *") \o implName \o Bytes(") GetLevel() int {")

\* The stub of the record item, with a method for each signature of sigs.
IsStubOf(text, item, sigs) ==
    IF item.Name = <<>> THEN text = <<>>
    ELSE LET implName == Bytes("NoOp") \o item.Name
         IN  /\ GetImplementationName(item) = implName
             /\ HasStubPrelude(text, implName)
             /\ MethodLinesOf(text, implName) = ExpectedMethodLines(sigs, implName)

\* C21 as stated: the stub of an interface record has the type NoOp<Name>,
\* a constructor, a level accessor and one placeholder method for every
\* entry of Methods, in order; a record with an empty name gives the empty
\* text.
C21_OneMethodPerEntry ==
    (pc = "returned" /\ call.fn = FnGenerateCode) =>
        IsStubOf(ret, call.arg, call.arg.Methods)

\* C21 amended: the stub has one placeholder method for every entry of
\* Methods whose parsed method name is not empty, in order; an entry with no
\* "(" (an embedded interface such as io.Reader) gives no method.
C21_OneMethodPerNamedEntry ==
    (pc = "returned" /\ call.fn = FnGenerateCode) =>
        IsStubOf(ret, call.arg,
                 SelectSeq(call.arg.Methods,
                           LAMBDA sig : parseMethodSignature(sig)[1] # <<>>))

C21_Witness ==
    /\ pc = "returned"
    /\ call.fn = FnGenerateCode
    /\ call.arg.Name = Bytes("Store")
    /\ call.arg.Methods = <<Bytes("Get(string) (*Widget, error)"), Bytes("Close() error")>>
    /\ MethodLinesOf(ret, Bytes("NoOpStore")) =
          <<Bytes("func (n *NoOpStore) Get(string) (*Widget, error) {"),
            <<9>> \o Bytes("return nil, nil"),
            Bytes("func (n *NoOpStore) Close() error {"),
            <<9>> \o Bytes("return nil")>>

----------------------------------------------------------------------------
(* Claims about the analysis engine.                                       *)

EngineRuns == pc = "engine"

\* A file has been processed: its results are collected, sorted and printed.
JustSorted == EngineRuns /\ engine.op = "processFile"

\* A file has been processed and its stubs were handed to the file writer.
JustGenerated ==
    JustSorted /\ engine.hasCodeGenerator /\ engine.noOpDir # <<>>

\* The records of the sequence s that carry a name.
NamedOnly(s) == SelectSeq(s, LAMBDA r : r.Name # <<>>)

\* s holds an interface Reader that depends on nothing and an interface
\* Writer whose signature mentions Reader, and nothing else.
ReaderAndWriter(s) ==
    /\ Len(s) = 2
    /\ \E i, j \in DOMAIN s :
          /\ s[i].Name = Bytes("Reader")
          /\ s[i].Methods = <<Bytes("Read([]byte) (int, error)")>>
          /\ s[j].Name = Bytes("Writer")
          /\ s[j].Methods = <<Bytes("Write(Reader) error")>>

ReaderName == Bytes("Reader")

WriterName == Bytes("Writer")

WriterStubAtLevelOne ==
    Bytes("// NoOpWriter is a no-op implementation of Writer interface (Level 1)")

\* C22: with the interfaces Reader and Writer sorted topologically, Reader
\* is at Level 0 and Writer at Level 1, and the text generated for
\* NoOpWriter records Level 1.
C22_StubCarriesAssignedLevel ==
    (JustGenerated /\ engine.useTopologicalSort /\ ReaderAndWriter(engine.results)) =>
        /\ engine.sorted[1].Name = ReaderName /\ engine.sorted[1].Level = 0
        /\ engine.sorted[2].Name = WriterName /\ engine.sorted[2].Level = 1
        /\ LET lines == LinesOf(engine.written[1].content)
           IN  \E i \in DOMAIN lines : lines[i] = WriterStubAtLevelOne

\* The type declaration of the stub of an interface without a name.
NamelessStub == Bytes("type NoOp struct {")

\* C23: the accumulator holds exactly the records the validator accepts, in
\* the order they were visited, and no record with an empty name is in the
\* sorted results or in the generated document.
C23_OnlyValidRecordsCollected ==
    EngineRuns =>
        /\ engine.results = NamedOnly(engine.visited)
        /\ \A i \in DOMAIN engine.sorted : engine.sorted[i].Name # <<>>
        /\ JustGenerated =>
              ~ Contains(engine.written[1].content, NamelessStub)

C23_Witness ==
    /\ JustGenerated
    /\ Len(engine.visited) = 2
    /\ engine.visited[1].Name = <<>>
    /\ engine.visited[2].Name = ReaderName
    /\ engine.results = <<engine.visited[2]>>
    /\ engine.sorted = <<engine.visited[2]>>

\* C24: GenerateCodeFile calls the file writer exactly once and returns
\* what the writer returned; with no code generator it returns an error and
\* the writer is not called.
C24_WriterOnceErrorUnchanged ==
    (pc = "returned" /\ call.fn = FnGenerateCodeFile) =>
        IF call.arg.engine.hasCodeGenerator
        THEN /\ Len(ret.written) = 1
             /\ ret.written[1].filename = call.arg.filename
             /\ ret.err = call.arg.outcome
        ELSE /\ ret.written = <<>>
             /\ ret.err # "nil"

C24_Witness ==
    /\ pc = "returned"
    /\ call.fn = FnGenerateCodeFile
    /\ call.arg.engine.hasCodeGenerator
    /\ call.arg.outcome # "nil"
    /\ Len(ret.written) = 1
    /\ ret.err = call.arg.outcome

\* The stubs of the records of s, each followed by a newline, in order.
RECURSIVE StubsOf(_)
StubsOf(s) ==
    IF s = <<>> THEN <<>>
    ELSE (IF GenerateCode(Head(s)) = <<>> THEN <<>> ELSE GenerateCode(Head(s)) \o <<10>>)
         \o StubsOf(Tail(s))

DoNotEditHeader ==
    Bytes("// Code generated by go-ast-analyzer; DO NOT EDIT.") \o <<10, 10>>

PackageDeclaration == Bytes("package main") \o <<10, 10>>

\* C25: the document handed to the file writer is the "do not edit" header,
\* a package line, and the stubs in the sorter's output order; every
\* collected interface has its stub there exactly once.
C25_DocumentHoldsEveryStub ==
    JustGenerated =>
        /\ engine.written[1].content =
              DoNotEditHeader \o PackageDeclaration \o StubsOf(engine.sorted)
        /\ \A i \in DOMAIN engine.results :
              Count(engine.sorted, engine.results[i]) = Count(engine.results, engine.results[i])

----------------------------------------------------------------------------
(* Further claims about the topological sorter.                            *)

\* No item names itself among its dependencies, as the extractors ensure.
NoSelfDependency(its) == \A i \in DOMAIN its : its[i].Name \notin its[i].Deps

\* C26: also when the input has a cycle, for every pair of input items A
\* and B where B depends on A and A does not depend on B, in one step or
\* several, A appears no later than B in the output.
C26_OrderKeptBesideCycles ==
    (Done /\ DistinctNames(items) /\ NoSelfDependency(items)) =>
        \A a, b \in DOMAIN items :
            (/\ items[a].Name \in items[b].Deps
             /\ items[b].Name \notin TransitiveDeps(items, a)) =>
                \A i, j \in DOMAIN result :
                    (result[i] = items[a] /\ result[j] = items[b]) => i <= j

\* C27: the sorted results of a file hold only records visited in that
\* file, and are what the sorter gives for the declarations of that file
\* alone, whatever earlier files held.
C27_RunsIsolated ==
    JustSorted =>
        /\ \A i \in DOMAIN engine.sorted :
              \E k \in DOMAIN engine.visited : engine.sorted[i] = engine.visited[k]
        /\ engine.sorted = SortItems(engine.useTopologicalSort, NamedOnly(engine.visited))

C27_Witness ==
    /\ JustSorted
    /\ engine.files = 2
    /\ \E r \in engine.earlier : r.Name = ReaderName
    /\ Len(engine.visited) = 1
    /\ engine.visited[1].Name = WriterName
    /\ engine.sorted = engine.visited

----------------------------------------------------------------------------
(* A further claim about the extractors.                                   *)

\* The type expression of a field text: what follows the name in
\* "name type", and the text itself for an embedded type.
FieldTypeOf(text) ==
    LET spaces == {i \in DOMAIN text : text[i] = 32}
    IN  IF spaces = {} THEN text
        ELSE SubSeq(text, 1 + (CHOOSE i \in spaces : \A k \in spaces : i <= k), Len(text))

\* A method text without the name of the method: from the first "(" on, and
\* the text itself for an embedded interface.
MethodTypeOf(text) ==
    LET opens == {i \in DOMAIN text : text[i] = 40}
    IN  IF opens = {} THEN text
        ELSE SubSeq(text, CHOOSE i \in opens : \A k \in opens : i <= k, Len(text))

\* C28: the dependencies of a struct are the names in the type expressions
\* of its fields, not the names of the fields; the dependencies of an
\* interface do not hold the name of a method for being that name.
C28_EdgesFromTypesOnly ==
    /\ (pc = "returned" /\ call.fn = FnStructExtract) =>
          Range(ret) = UNION {TypeDependencies(FieldTypeOf(call.arg.Fields[i])) :
                                 i \in DOMAIN call.arg.Fields} \ {call.arg.Name}
    /\ (pc = "returned" /\ call.fn = FnInterfaceExtract) =>
          Range(ret) = UNION {TypeDependencies(MethodTypeOf(call.arg.Methods[i])) :
                                 i \in DOMAIN call.arg.Methods} \ {call.arg.Name}

----------------------------------------------------------------------------
(* Frame and algebraic claims.                                             *)

\* C29: the sorts of a file leave the accumulator, which is the input of
\* the resolver, as the analysis left it, and the sort of GenerateCodeFile
\* returns the sequence the sort of PrintResults returned.
C29_SortingHasNoEffect ==
    JustSorted =>
        /\ engine.results = engine.collected
        /\ JustGenerated => engine.sorted = engine.printed

C29_Witness ==
    /\ JustGenerated
    /\ engine.useTopologicalSort
    /\ Len(engine.results) = 2
    /\ engine.results[1].Name = WriterName
    /\ engine.results[2].Name = ReaderName
    /\ engine.sorted = <<engine.results[2], engine.results[1]>>
    /\ engine.printed = engine.sorted

\* C30: the topological sort of its own output is that output.
C30_Idempotent ==
    Done => ResolveDependencies(result) = result

\* A cycle and a free item: the output differs from the input and is its
\* own sort.
C30_Witness ==
    /\ Done
    /\ Len(items) = 3
    /\ ~ Acyclic(items)
    /\ result # items
    /\ ResolveDependencies(result) = result
=============================================================================
